---- MODULE Spec2Model ----
(***************************************************************************)
(* Model of src/src/commands/kv/key/put.rs (wrangler `kv:key put`).        *)
(*                                                                         *)
(* Two specifications:                                                     *)
(*   ParseSpec  parse_metadata applied to one argument string;             *)
(*   Spec       one invocation of put, step by step.                       *)
(*                                                                         *)
(* Text the code looks into (the --metadata argument, the expiration       *)
(* strings, the query string) is a sequence of one-character strings.      *)
(* Text the code only passes along (value, the path) is a TLA+ string.     *)
(***************************************************************************)
EXTENDS Integers, Sequences, FiniteSets, TLC

(***************************************************************************)
(* Bounds of the model.                                                    *)
(***************************************************************************)
\* longest enumerated --metadata argument
MaxLen == 3
\* longest enumerated expiration / expiration_ttl string
MaxExpLen == 1

\* Option<T>
None == [some |-> FALSE]
Some(x) == [some |-> TRUE, v |-> x]

\* all sequences over S of length at most n
SeqsUpTo(S, n) == UNION {[1..k -> S] : k \in 0..n}

(***************************************************************************)
(* serde_json::Value                                                       *)
(***************************************************************************)
JNull == [t |-> "null"]
JBool(b) == [t |-> "bool", b |-> b]
\* int, frac, exp are digit sequences; an integer has float = FALSE and
\* empty frac and exp.  exp is kept as written (sign and digits).
JNum(float, neg, int, frac, exp) ==
    [t |-> "num", float |-> float, neg |-> neg, int |-> int, frac |-> frac, exp |-> exp]
JInt(int) == JNum(FALSE, FALSE, int, <<>>, <<>>)
JStr(s) == [t |-> "str", s |-> s]
JArr(items) == [t |-> "arr", items |-> items]
\* members: a function from key (character sequence) to value
JObj(members) == [t |-> "obj", members |-> members]

Digits == {"0", "1", "2", "3", "4", "5", "6", "7", "8", "9"}
HexDigits == Digits \cup {"a", "b", "c", "d", "e", "f", "A", "B", "C", "D", "E", "F"}
WS == {" ", "\n", "\t", "\r"}
\* characters below 0x20 that can be written as a TLA+ string
ControlChars == {"\n", "\t", "\r", "\f", "<BS>"}

\* the characters of the model in ASCII order
AsciiOrder ==
    << "<BS>", "\t", "\n", "\f", "\r", " ", "\"", "%", "&", "'", "+", ",", "-", ".", "/",
       "0", "1", "2", "3", "4", "5", "6", "7", "8", "9", ":", "=",
       "A", "B", "C", "D", "E", "F", "G", "H", "I", "J", "K", "L", "M",
       "N", "O", "P", "Q", "R", "S", "T", "U", "V", "W", "X", "Y", "Z",
       "[", "\\", "]",
       "a", "b", "c", "d", "e", "f", "g", "h", "i", "j", "k", "l", "m",
       "n", "o", "p", "q", "r", "s", "t", "u", "v", "w", "x", "y", "z",
       "{", "}" >>

Code(c) == CHOOSE i \in 1..Len(AsciiOrder) : AsciiOrder[i] = c

(***************************************************************************)
(* serde_json::from_str::<Value>: a recursive-descent parser.  Every       *)
(* parsing operator returns [ok, v, pos, err]: pos is the index of the     *)
(* first character not consumed (on failure: where the error is).          *)
(***************************************************************************)
Good(v, i) == [ok |-> TRUE, v |-> v, pos |-> i, err |-> "none"]
Fail(code, i) == [ok |-> FALSE, v |-> JNull, pos |-> i, err |-> code]

RECURSIVE SkipWs(_, _)
SkipWs(s, i) == IF i <= Len(s) /\ s[i] \in WS THEN SkipWs(s, i + 1) ELSE i

RECURSIVE DigitsEnd(_, _)
DigitsEnd(s, i) == IF i <= Len(s) /\ s[i] \in Digits THEN DigitsEnd(s, i + 1) ELSE i

\* the literal `word` (true, false, null) at s[i..]
ParseIdent(s, i, word, v) ==
    LET n == Len(word)
        bad == {k \in 1..n : i + k - 1 > Len(s) \/ s[i + k - 1] # word[k]}
    IN IF bad = {} THEN Good(v, i + n)
       ELSE LET k == CHOOSE m \in bad : \A o \in bad : m <= o
            IN IF i + k - 1 > Len(s) THEN Fail("EOF while parsing a value", i + k - 1)
               ELSE Fail("expected ident", i + k - 1)

\* a fraction's digits without trailing zeros, at least one digit kept
RECURSIVE NormFrac(_)
NormFrac(d) ==
    IF Len(d) > 1 /\ d[Len(d)] = "0" THEN NormFrac(SubSeq(d, 1, Len(d) - 1)) ELSE d

DigitVal(c) == Code(c) - Code("0")

\* the number a digit sequence spells
RECURSIVE NatOf(_)
NatOf(d) == IF d = <<>> THEN 0 ELSE 10 * NatOf(SubSeq(d, 1, Len(d) - 1)) + DigitVal(d[Len(d)])

RECURSIVE DropZeros(_)
DropZeros(d) == IF d # <<>> /\ Head(d) = "0" THEN DropZeros(Tail(d)) ELSE d

\* a < b for digit sequences read as the decimals 0.a and 0.b
RECURSIVE FracLess(_, _)
FracLess(a, b) ==
    IF b = <<>> THEN FALSE
    ELSE IF a = <<>> THEN DropZeros(b) # <<>>
    ELSE IF Head(a) # Head(b) THEN DigitVal(Head(a)) < DigitVal(Head(b))
    ELSE FracLess(Tail(a), Tail(b))

\* the leading digits of (2 - 2^-53) * 2^1023, from which a literal rounds to
\* infinity; its decimal exponent is F64MaxExp10
F64Limit ==
    << "1", "7", "9", "7", "6", "9", "3", "1", "3", "4", "8", "6", "2", "3", "1", "5",
       "8", "0", "7", "9", "3", "7" >>
F64MaxExp10 == 308
\* exponents of more digits than this are out of range whatever the mantissa
MaxExpDigits == 6

\* whether the float int.frac e exp is beyond f64 (serde_json: "number out of range")
OutOfRange(int, frac, exp) ==
    LET all == int \o frac
        sig == DropZeros(all)
        lz == Len(all) - Len(sig)
        neg == exp # <<>> /\ Head(exp) = "-"
        ed == DropZeros(IF exp # <<>> /\ Head(exp) \in {"+", "-"} THEN Tail(exp) ELSE exp)
    IN IF sig = <<>> \/ neg THEN FALSE
       ELSE IF Len(ed) > MaxExpDigits THEN TRUE
       ELSE LET e10 == NatOf(ed) + Len(int) - 1 - lz
            IN e10 > F64MaxExp10 \/ (e10 = F64MaxExp10 /\ ~FracLess(sig, F64Limit))

\* -?(0|[1-9][0-9]*)(\.[0-9]+)?([eE][+-]?[0-9]+)?
ParseNumber(s, i) ==
    LET neg == s[i] = "-"
        j == IF neg THEN i + 1 ELSE i
    IN
    IF j > Len(s) THEN Fail("EOF while parsing a value", j)
    ELSE IF s[j] \notin Digits THEN Fail("invalid number", j)
    ELSE
      LET ie == IF s[j] = "0" THEN j + 1 ELSE DigitsEnd(s, j)
          int == SubSeq(s, j, ie - 1)
          hasFrac == ie <= Len(s) /\ s[ie] = "."
          fe == IF hasFrac THEN DigitsEnd(s, ie + 1) ELSE ie
          frac == IF hasFrac THEN SubSeq(s, ie + 1, fe - 1) ELSE <<>>
          hasExp == fe <= Len(s) /\ s[fe] \in {"e", "E"}
          sg == IF hasExp /\ fe + 1 <= Len(s) /\ s[fe + 1] \in {"+", "-"}
                THEN fe + 2 ELSE fe + 1
          ee == IF hasExp THEN DigitsEnd(s, sg) ELSE fe
          exp == IF hasExp THEN SubSeq(s, fe + 1, ee - 1) ELSE <<>>
      IN
      IF s[j] = "0" /\ ie <= Len(s) /\ s[ie] \in Digits THEN Fail("invalid number", ie)
      ELSE IF hasFrac /\ fe = ie + 1
        THEN IF fe > Len(s) THEN Fail("EOF while parsing a value", fe)
             ELSE Fail("invalid number", fe)
      ELSE IF hasExp /\ ee = sg
        THEN IF ee > Len(s) THEN Fail("EOF while parsing a value", ee)
             ELSE Fail("invalid number", ee)
      ELSE IF (hasFrac \/ hasExp) /\ OutOfRange(int, frac, exp)
        THEN Fail("number out of range", ee)
      ELSE IF hasFrac \/ hasExp
        THEN Good(JNum(TRUE, neg, int, IF hasFrac THEN NormFrac(frac) ELSE <<"0">>, exp), ee)
      ELSE IF neg /\ int = <<"0">>
        \* "-0" is the float -0.0
        THEN Good(JNum(TRUE, TRUE, int, <<"0">>, <<>>), ee)
      ELSE Good(JNum(FALSE, neg, int, <<>>, <<>>), ee)

\* the character an escape \c stands for
Unescape(c) ==
    CASE c = "\"" -> "\""
      [] c = "\\" -> "\\"
      [] c = "/" -> "/"
      [] c = "b" -> "<BS>"
      [] c = "f" -> "\f"
      [] c = "n" -> "\n"
      [] c = "r" -> "\r"
      [] c = "t" -> "\t"

\* the rest of a string whose opening quote is before s[i]
RECURSIVE StrBody(_, _, _)
StrBody(s, i, acc) ==
    IF i > Len(s) THEN Fail("EOF while parsing a string", i)
    ELSE IF s[i] = "\"" THEN Good(JStr(acc), i + 1)
    ELSE IF s[i] = "\\" THEN
      IF i + 1 > Len(s) THEN Fail("EOF while parsing a string", i + 1)
      ELSE IF s[i + 1] \in {"\"", "\\", "/", "b", "f", "n", "r", "t"}
        THEN StrBody(s, i + 2, Append(acc, Unescape(s[i + 1])))
      ELSE IF s[i + 1] = "u" THEN
        IF i + 5 > Len(s) THEN Fail("EOF while parsing a string", Len(s) + 1)
        ELSE IF \E k \in 2..5 : s[i + k] \notin HexDigits THEN Fail("invalid escape", i + 2)
        ELSE StrBody(s, i + 6,
                     Append(acc, "\\u" \o s[i + 2] \o s[i + 3] \o s[i + 4] \o s[i + 5]))
      ELSE Fail("invalid escape", i + 1)
    ELSE IF s[i] \in ControlChars
      THEN Fail("control character (\\u0000-\\u001F) found while parsing a string", i)
    ELSE StrBody(s, i + 1, Append(acc, s[i]))

\* serde_json's Deserializer starts with remaining_depth: 128
RecursionLimit == 128

RECURSIVE ParseValue(_, _, _)
RECURSIVE ParseElems(_, _, _, _)
RECURSIVE ParseMembers(_, _, _, _)

\* a value starting at s[i] (whitespace already skipped), d the remaining depth
ParseValue(s, i, d) ==
    IF i > Len(s) THEN Fail("EOF while parsing a value", i)
    ELSE IF s[i] = "n" THEN ParseIdent(s, i, <<"n", "u", "l", "l">>, JNull)
    ELSE IF s[i] = "t" THEN ParseIdent(s, i, <<"t", "r", "u", "e">>, JBool(TRUE))
    ELSE IF s[i] = "f" THEN ParseIdent(s, i, <<"f", "a", "l", "s", "e">>, JBool(FALSE))
    ELSE IF s[i] = "-" \/ s[i] \in Digits THEN ParseNumber(s, i)
    ELSE IF s[i] = "\"" THEN StrBody(s, i + 1, <<>>)
    ELSE IF s[i] \in {"[", "{"} /\ d - 1 = 0 THEN Fail("recursion limit exceeded", i)
    ELSE IF s[i] = "[" THEN
      LET j == SkipWs(s, i + 1)
      IN IF j <= Len(s) /\ s[j] = "]" THEN Good(JArr(<<>>), j + 1)
         ELSE IF j > Len(s) THEN Fail("EOF while parsing a list", j)
         ELSE ParseElems(s, j, <<>>, d - 1)
    ELSE IF s[i] = "{" THEN
      LET j == SkipWs(s, i + 1)
      IN IF j <= Len(s) /\ s[j] = "}" THEN Good(JObj(<<>>), j + 1)
         ELSE ParseMembers(s, j, <<>>, d - 1)
    ELSE Fail("expected value", i)

\* the elements of an array from s[i] on, acc the elements before
ParseElems(s, i, acc, d) ==
    LET r == ParseValue(s, i, d)
        j == SkipWs(s, r.pos)
    IN
    IF ~r.ok THEN r
    ELSE IF j > Len(s) THEN Fail("EOF while parsing a list", j)
    ELSE IF s[j] = "]" THEN Good(JArr(Append(acc, r.v)), j + 1)
    ELSE IF s[j] = "," THEN
      LET k == SkipWs(s, j + 1)
      IN IF k <= Len(s) /\ s[k] = "]" THEN Fail("trailing comma", k)
         ELSE ParseElems(s, k, Append(acc, r.v), d)
    ELSE Fail("expected , or ]", j)

\* the members of an object from s[i] on, m the members before; a repeated
\* key keeps its last value
ParseMembers(s, i, m, d) ==
    IF i > Len(s) THEN Fail("EOF while parsing an object", i)
    ELSE IF s[i] # "\"" THEN Fail("key must be a string", i)
    ELSE
      LET ks == StrBody(s, i + 1, <<>>)
          c == SkipWs(s, ks.pos)
      IN
      IF ~ks.ok THEN ks
      ELSE IF c > Len(s) THEN Fail("EOF while parsing an object", c)
      ELSE IF s[c] # ":" THEN Fail("expected :", c)
      ELSE
        LET r == ParseValue(s, SkipWs(s, c + 1), d)
            j == SkipWs(s, r.pos)
            m2 == (ks.v.s :> r.v) @@ m
        IN
        IF ~r.ok THEN r
        ELSE IF j > Len(s) THEN Fail("EOF while parsing an object", j)
        ELSE IF s[j] = "}" THEN Good(JObj(m2), j + 1)
        ELSE IF s[j] = "," THEN
          LET k == SkipWs(s, j + 1)
          IN IF k <= Len(s) /\ s[k] = "}" THEN Fail("trailing comma", k)
             ELSE ParseMembers(s, k, m2, d)
        ELSE Fail("expected , or }", j)

\* serde_json::from_str: one value, then nothing but whitespace
from_str(s) ==
    LET r == ParseValue(s, SkipWs(s, 1), RecursionLimit)
        j == SkipWs(s, r.pos)
    IN IF r.ok /\ j <= Len(s) THEN Fail("trailing characters", j) ELSE r

(***************************************************************************)
(* serde_json's Display for Value (metadata.to_string()): compact JSON,    *)
(* object keys in ascending order (BTreeMap).                              *)
(***************************************************************************)
\* a character of a string as it is written between the quotes
EscapeChar(c) ==
    CASE c = "\"" -> <<"\\", "\"">>
      [] c = "\\" -> <<"\\", "\\">>
      [] c = "<BS>" -> <<"\\", "b">>
      [] c = "\f" -> <<"\\", "f">>
      [] c = "\n" -> <<"\\", "n">>
      [] c = "\r" -> <<"\\", "r">>
      [] c = "\t" -> <<"\\", "t">>
      [] OTHER -> <<c>>

RECURSIVE EscapeStr(_)
EscapeStr(s) == IF s = <<>> THEN <<>> ELSE EscapeChar(Head(s)) \o EscapeStr(Tail(s))

Quoted(s) == <<"\"">> \o EscapeStr(s) \o <<"\"">>

\* lexicographic order of character sequences by character code
RECURSIVE LexLess(_, _)
LexLess(a, b) ==
    IF b = <<>> THEN FALSE
    ELSE IF a = <<>> THEN TRUE
    ELSE IF Code(Head(a)) # Code(Head(b)) THEN Code(Head(a)) < Code(Head(b))
    ELSE LexLess(Tail(a), Tail(b))

MinKey(keys) == CHOOSE k \in keys : \A o \in keys \ {k} : LexLess(k, o)

RECURSIVE to_string(_)
RECURSIVE JoinItems(_)
RECURSIVE JoinMembers(_, _)

to_string(v) ==
    CASE v.t = "null" -> <<"n", "u", "l", "l">>
      [] v.t = "bool" -> IF v.b THEN <<"t", "r", "u", "e">> ELSE <<"f", "a", "l", "s", "e">>
      [] v.t = "num" ->
           (IF v.neg THEN <<"-">> ELSE <<>>) \o v.int
           \o (IF v.float THEN <<".">> \o v.frac ELSE <<>>)
           \o (IF v.exp # <<>> THEN <<"e">> \o v.exp ELSE <<>>)
      [] v.t = "str" -> Quoted(v.s)
      [] v.t = "arr" -> <<"[">> \o JoinItems(v.items) \o <<"]">>
      [] v.t = "obj" -> <<"{">> \o JoinMembers(v.members, DOMAIN v.members) \o <<"}">>

JoinItems(items) ==
    IF items = <<>> THEN <<>>
    ELSE IF Len(items) = 1 THEN to_string(items[1])
    ELSE to_string(Head(items)) \o <<",">> \o JoinItems(Tail(items))

JoinMembers(m, keys) ==
    IF keys = {} THEN <<>>
    ELSE LET k == MinKey(keys)
             one == Quoted(k) \o <<":">> \o to_string(m[k])
         IN IF keys = {k} THEN one ELSE one \o <<",">> \o JoinMembers(m, keys \ {k})

(***************************************************************************)
(* parse_metadata                                                          *)
(***************************************************************************)
Ok(x) == [ok |-> TRUE, v |-> x]
Err(m) == [ok |-> FALSE, err |-> m]

QuoteChars == {"'", "\""}
\* the characters the class [^"'{}\[\]] excludes
ClassExcluded == {"\"", "'", "{", "}", "[", "]"}


\* the pattern without its trailing ['"]?
re_is_match_no_trailing(s) ==
    LET n == Len(s)
        p1 == {0} \cup (IF n >= 1 /\ s[1] \in QuoteChars THEN {1} ELSE {})
        p2 == {j \in 0..n : \E i \in p1 : i <= j /\ \A k \in (i + 1)..j : s[k] \notin ClassExcluded}
    IN n \in p2

\* Regex ^['"]?[^"'{}\[\]]*['"]?$ on s: the positions the match can be at
\* after each of the three pieces, starting from 0; it matches when the last
\* piece can end at the end of s.
re_is_match(s) ==
    LET n == Len(s)
        p1 == {0} \cup (IF n >= 1 /\ s[1] \in QuoteChars THEN {1} ELSE {})
        p2 == {j \in 0..n : \E i \in p1 : i <= j /\ \A k \in (i + 1)..j : s[k] \notin ClassExcluded}
        p3 == p2 \cup {j + 1 : j \in {q \in p2 : q < n /\ s[q + 1] \in QuoteChars}}
    IN n \in p3

HintPrefix ==
    << "d", "i", "d", " ", "y", "o", "u", " ", "r", "e", "m", "e", "m", "b", "e", "r", " ",
       "t", "o", " ", "d", "o", "u", "b", "l", "e", " ", "q", "u", "o", "t", "e", " ",
       "s", "t", "r", "i", "n", "g", "s", ",", " ", "l", "i", "k", "e", " ",
       "-", "-", "m", "e", "t", "a", "d", "a", "t", "a", " ", "'", "\"" >>
HintSuffix == << "\"", "'" >>

\* failure::bail!("did you remember ... '\"{}\"'", s)
HintError(s) == [hint |-> TRUE, text |-> HintPrefix \o s \o HintSuffix]
\* failure::bail!(e.to_string()): the parser's message and where it points
JsonError(r) == [hint |-> FALSE, text |-> <<r.err>>, at |-> r.pos]


\* parse_metadata with the hint tried before the parse
parse_metadata_hint_first(a) ==
    IF ~a.some THEN Ok(None)
    ELSE LET s == a.v
             r == from_str(s)
         IN IF re_is_match(s) THEN Err(HintError(s))
            ELSE IF r.ok THEN Ok(Some(r.v))
            ELSE Err(JsonError(r))

parse_metadata(a) ==
    IF ~a.some THEN Ok(None)
    ELSE LET s == a.v
             r == from_str(s)
         IN IF r.ok THEN Ok(Some(r.v))
            ELSE IF re_is_match(s) THEN Err(HintError(s))
            ELSE Err(JsonError(r))

(***************************************************************************)
(* State.                                                                  *)
(***************************************************************************)
VARIABLES
    arg,      \* parse_metadata's argument, Option<&str>
    result,   \* Option of parse_metadata's result
    data,     \* put's KVMetaData (namespace_id and key are fixed below)
    fs,       \* what the path data.value is on disk
    pc,       \* where the invocation is
    url,      \* Option of the Url built at line 68
    req,      \* Option of the payload built by get_response
    sent,     \* the requests handed to send(), in order
    res,      \* Option of the response send() returned
    stdout,   \* what was printed, in order
    ret,      \* Option of put's return value
    fs_ops    \* the file-system calls made, in order

vars == <<arg, result, data, fs, pc, url, req, sent, res, stdout, ret, fs_ops>>
putVars == <<data, fs, url, req, sent, res, stdout, ret, fs_ops>>

(***************************************************************************)
(* ParseSpec: parse_metadata on one argument.                              *)
(***************************************************************************)
VecTrue == <<"t", "r", "u", "e">>
VecFalse == <<"f", "a", "l", "s", "e">>
VecNumber == <<"1", "2", "3", ".", "4", "5", "6">>
VecString == <<"\"", "s", "o", "m", "e", " ", "s", "t", "r", "i", "n", "g", "\"">>
VecArray == <<"[", "1", ",", " ", "2", "]">>
VecObject == <<"{", "\"", "k", "e", "y", "\"", ":", " ", "\"", "v", "a", "l", "u", "e", "\"", "}">>
VecSomething == <<"s", "o", "m", "e", "t", "h", "i", "n", "g">>
VecBareKey == <<"{", "k", "e", "y", ":", " ", "1", "2", "3", "}">>
VecOpenArray == <<"[", "1", ",", " ", "2">>
VecAbc == <<"a", "b", "c">>
VecAbcSQ == <<"'", "a", "b", "c", "'">>
VecAbcLeadSQ == <<"'", "a", "b", "c">>
VecAbcTrailSQ == <<"a", "b", "c", "'">>
VecAbcLeadDQ == <<"\"", "a", "b", "c">>
VecAbcTrailDQ == <<"a", "b", "c", "\"">>

\* tests::metadata_parser_legal
LegalVectors == {VecTrue, VecFalse, VecNumber, VecString, VecArray, VecObject}
\* tests::metadata_parser_illegal
IllegalVectors == {VecSomething, VecBareKey, VecOpenArray}
\* tests::metadata_parser_error_message_unquoted_string_error_message
HintVectors == {VecAbc, VecAbcSQ, VecAbcLeadSQ, VecAbcTrailSQ, VecAbcLeadDQ, VecAbcTrailDQ}

\* the texts serde_json writes for some values
SerializedVectors ==
    {to_string(v) : v \in
        { JNull, JBool(FALSE), JArr(<<>>), JObj(<<>>), JStr(<<>>),
          JStr(<<"a", "\"">>),
          JArr(<<JInt(<<"1">>), JInt(<<"2">>)>>),
          JObj(<<"k", "e", "y">> :> JStr(<<"v", "a", "l", "u", "e">>)) }}

\* the characters of the enumerated arguments
ArgAlphabet ==
    {"a", "e", "1", "0", "\"", "'", "[", "]", "{", "}", ",", ":", " ", "\\", "-", "."}

ArgInputs ==
    {None} \cup {Some(s) : s \in SeqsUpTo(ArgAlphabet, MaxLen)
                               \cup LegalVectors \cup IllegalVectors \cup HintVectors
                               \cup SerializedVectors}

\* the put variables while parse_metadata runs: put has not been called
PutIdle ==
    /\ data = None /\ fs = None /\ url = None /\ req = None /\ sent = <<>>
    /\ res = None /\ stdout = <<>> /\ ret = None /\ fs_ops = <<>>

ParseInit ==
    /\ arg \in ArgInputs
    /\ result = None
    /\ pc = "parse"
    /\ PutIdle

ParseMetadata ==
    /\ pc = "parse"
    /\ result' = Some(parse_metadata(arg))
    /\ pc' = "parsed"
    /\ UNCHANGED <<arg, putVars>>

ParseNext == ParseMetadata

ParseSpec == ParseInit /\ [][ParseNext]_vars

(***************************************************************************)
(* put: the pieces of one invocation.                                      *)
(***************************************************************************)
\* an error put returns: the pieces of its message
IoError(op) == <<"io::Error", op>>
DirectoryError(value) == <<"--path argument takes a file, ", value, " is a directory">>
SymlinkError(value) == <<"--path argument takes a file, ", value, " is a symlink">>
TargetError == <<"validate_target">>
UrlError == <<"url::ParseError">>
SendError == <<"reqwest::Error">>

\* kv::validate_target(target): put only sees whether it failed
validate_target(valid) == IF valid THEN Ok("unit") ELSE Err(TargetError)

\* kv::url_encode_key(key)
url_encode_key(key) == <<"url_encode_key", key>>

AccountId == "account"
NamespaceId == "namespace"
Key == "foo"

\* format!("https://api.cloudflare.com/client/v4/accounts/{}/storage/kv/namespaces/{}/values/{}", ..)
api_endpoint ==
    << "https://api.cloudflare.com/client/v4/accounts/", AccountId,
       "/storage/kv/namespaces/", NamespaceId, "/values/", url_encode_key(Key) >>

ExpirationName == <<"e", "x", "p", "i", "r", "a", "t", "i", "o", "n">>
ExpirationTtlName == ExpirationName \o <<"_", "t", "t", "l">>


\* the second `if` written as `else if`
query_params_exclusive(d) ==
    IF d.expiration.some THEN << <<ExpirationName, d.expiration.v>> >>
    ELSE IF d.expiration_ttl.some THEN << <<ExpirationTtlName, d.expiration_ttl.v>> >>
    ELSE <<>>

\* lines 60-67: the (name, value) pairs pushed, in order
query_params(d) ==
    (IF d.expiration.some THEN << <<ExpirationName, d.expiration.v>> >> ELSE <<>>)
    \o (IF d.expiration_ttl.some THEN << <<ExpirationTtlName, d.expiration_ttl.v>> >> ELSE <<>>)

\* form_urlencoded::byte_serialize: what the url crate writes for one character
Unreserved ==
    Digits \cup {"*", "-", ".", "_"}
    \cup {AsciiOrder[i] : i \in {k \in 1..Len(AsciiOrder) :
              \/ Code("A") <= k /\ k <= Code("Z")
              \/ Code("a") <= k /\ k <= Code("z")}}

PercentCode(c) ==
    CASE c = "<BS>" -> <<"0", "8">>
      [] c = "\t" -> <<"0", "9">>
      [] c = "\n" -> <<"0", "A">>
      [] c = "\f" -> <<"0", "C">>
      [] c = "\r" -> <<"0", "D">>
      [] c = "\"" -> <<"2", "2">>
      [] c = "%" -> <<"2", "5">>
      [] c = "&" -> <<"2", "6">>
      [] c = "'" -> <<"2", "7">>
      [] c = "+" -> <<"2", "B">>
      [] c = "," -> <<"2", "C">>
      [] c = "/" -> <<"2", "F">>
      [] c = ":" -> <<"3", "A">>
      [] c = "=" -> <<"3", "D">>
      [] c = "[" -> <<"5", "B">>
      [] c = "\\" -> <<"5", "C">>
      [] c = "]" -> <<"5", "D">>
      [] c = "{" -> <<"7", "B">>
      [] c = "}" -> <<"7", "D">>

byte_serialize_char(c) ==
    IF c \in Unreserved THEN <<c>>
    ELSE IF c = " " THEN <<"+">>
    ELSE <<"%">> \o PercentCode(c)

RECURSIVE byte_serialize(_)
byte_serialize(s) ==
    IF s = <<>> THEN <<>> ELSE byte_serialize_char(Head(s)) \o byte_serialize(Tail(s))

\* Serializer::extend_pairs: name=value joined by &
RECURSIVE extend_pairs(_)
extend_pairs(pairs) ==
    IF pairs = <<>> THEN <<>>
    ELSE LET one == byte_serialize(pairs[1][1]) \o <<"=">> \o byte_serialize(pairs[1][2])
         IN IF Len(pairs) = 1 THEN one ELSE one \o <<"&">> \o extend_pairs(Tail(pairs))

\* Url::parse_with_params(&api_endpoint, query_params); parses: whether the
\* url crate accepts the endpoint
parse_with_params(endpoint, pairs, parses) ==
    IF parses THEN Ok([base |-> endpoint, query |-> extend_pairs(pairs)])
    ELSE Err(UrlError)

\* std::fs::metadata(path): stat(2), which follows symbolic links
fs_metadata(f) ==
    IF f.kind = "missing" THEN Err(IoError("stat"))
    ELSE Ok([is_file |-> f.kind = "file", is_dir |-> f.kind = "dir"])

\* what File::open(path) can return: it follows links too; a directory opens
\* read-only on Unix and not on Windows
OpenResults(f) ==
    IF f.kind = "missing" \/ ~f.readable THEN {FALSE}
    ELSE IF f.kind = "dir" THEN BOOLEAN
    ELSE {TRUE}

FileBody(path) == [src |-> "file", path |-> path]
TextBody(value) == [src |-> "text", text |-> value]

\* fs::File::open(path)?, opens: whether the open succeeds
File_open(path, opens) == IF opens THEN Ok(FileBody(path)) ELSE Err(IoError("open"))


\* get_request_body without the is_dir arm
get_request_body_no_dir_arm(d, f, opens) ==
    IF d.is_file THEN
      LET st == fs_metadata(f)
      IN IF st.ok /\ st.v.is_file
           THEN [r |-> File_open(d.value, opens), ops |-> <<"stat", "open">>]
         ELSE IF st.ok
           THEN [r |-> Err(SymlinkError(d.value)), ops |-> <<"stat">>]
         ELSE [r |-> Err(st.err), ops |-> <<"stat">>]
    ELSE [r |-> Ok(TextBody(d.value)), ops |-> <<>>]

\* get_request_body: [r: the Result, ops: the file-system calls it made]
get_request_body(d, f, opens) ==
    IF d.is_file THEN
      LET st == fs_metadata(f)
      IN IF st.ok /\ st.v.is_file
           THEN [r |-> File_open(d.value, opens), ops |-> <<"stat", "open">>]
         ELSE IF st.ok /\ st.v.is_dir
           THEN [r |-> Err(DirectoryError(d.value)), ops |-> <<"stat">>]
         ELSE IF st.ok
           THEN [r |-> Err(SymlinkError(d.value)), ops |-> <<"stat">>]
         ELSE [r |-> Err(st.err), ops |-> <<"stat">>]
    ELSE [r |-> Ok(TextBody(d.value)), ops |-> <<>>]

\* multipart::Form::new().part("value", part).text("metadata", metadata.to_string())
multipart_form(part, metadata) ==
    [encoding |-> "multipart",
     parts |-> << [name |-> "value", body |-> part],
                  [name |-> "metadata", body |-> [src |-> "json", chars |-> to_string(metadata)]] >>]

raw_body(body) == [encoding |-> "raw", body |-> body]


\* get_response without the metadata arm
build_payload_always_raw(d, f, opens) ==
    LET b == get_request_body(d, f, opens)
    IN IF b.r.ok THEN [r |-> Ok(raw_body(b.r.v)), ops |-> b.ops] ELSE b

\* get_response up to send(): the payload, or the error returned by `?`
build_payload(d, f, opens) ==
    IF d.metadata.some THEN
      LET part == IF d.is_file THEN File_open(d.value, opens) ELSE Ok(TextBody(d.value))
          ops == IF d.is_file THEN <<"open">> ELSE <<>>
      IN IF part.ok THEN [r |-> Ok(multipart_form(part.v, d.metadata.v)), ops |-> ops]
         ELSE [r |-> part, ops |-> ops]
    ELSE
      LET b == get_request_body(d, f, opens)
      IN IF b.r.ok THEN [r |-> Ok(raw_body(b.r.v)), ops |-> b.ops] ELSE b

\* whether sending the payload reads the path
StreamsFile(payload) ==
    IF payload.encoding = "raw" THEN payload.body.src = "file"
    ELSE payload.parts[1].body.src = "file"

StatusCodes == {200, 299, 300, 400}

\* response bodies: not the error envelope, or the envelope with its errors
ResponseBodies ==
    { [parses |-> FALSE, errors |-> <<>>],
      [parses |-> TRUE, errors |-> <<>>],
      [parses |-> TRUE, errors |-> << [code |-> 10000, message |-> "Authentication error"] >>] }

Responses == {[status |-> s, body |-> b] : s \in StatusCodes, b \in ResponseBodies}

\* what send() can return: a response or a transport error; read(2) on a
\* directory fails, so a payload streaming one never completes
SendResults(payload, f) ==
    {Err(SendError)}
    \cup (IF StreamsFile(payload) /\ f.kind = "dir" THEN {} ELSE {Ok(r) : r \in Responses})

\* StatusCode::is_success
is_success(status) == 200 <= status /\ status < 300

\* res.json(): the error list of the body, if it is the envelope
json(body) == IF body.parses THEN Ok(body.errors) ELSE Err(<<"reqwest::Error">>)

unwrap_or_default(r) == IF r.ok THEN r.v ELSE <<>>

\* kv::format_error(ApiFailure::Error(status, errors))
format_error(status, errors) == [kind |-> "report", status |-> status, errors |-> errors]

\* StdOut::success("Success")
success(msg) == [kind |-> "success", text |-> msg]


\* put returning the rejection as an error
interpret_rejection_fails(response) ==
    IF is_success(response.status)
      THEN [out |-> <<success("Success")>>, ret |-> Ok("unit")]
    ELSE [out |-> <<format_error(response.status, unwrap_or_default(json(response.body)))>>,
          ret |-> Err(<<"api rejection">>)]

\* put printing "Success" before it looks at the status
interpret_success_first(response) ==
    [out |-> <<success("Success")>>
             \o (IF is_success(response.status) THEN <<>>
                 ELSE <<format_error(response.status, unwrap_or_default(json(response.body)))>>),
     ret |-> Ok("unit")]

\* lines 72-86: what put prints for a response, and what it returns
interpret(response) ==
    IF is_success(response.status)
      THEN [out |-> <<success("Success")>>, ret |-> Ok("unit")]
    ELSE [out |-> <<format_error(response.status, unwrap_or_default(json(response.body)))>>,
          ret |-> Ok("unit")]

(***************************************************************************)
(* Spec: one invocation of put.                                            *)
(***************************************************************************)
\* data.value: a literal, or a path when is_file
Values == {"bar", "/tmp/f"}

ExpAlphabet == {"1", " ", "&"}
ExpInputs == {None} \cup {Some(s) : s \in SeqsUpTo(ExpAlphabet, MaxExpLen)}

MetaValues ==
    { JBool(TRUE),
      JStr(<<"a", "\"">>),
      JArr(<<JInt(<<"1">>), JInt(<<"2">>)>>),
      JObj(<<"k", "e", "y">> :> JStr(<<"v", "a", "l", "u", "e">>)) }

DataInputs ==
    [value : Values, is_file : BOOLEAN, expiration : ExpInputs, expiration_ttl : ExpInputs,
     metadata : {None} \cup {Some(m) : m \in MetaValues}]

\* kind: what the path resolves to once links are followed ("other": a fifo,
\* socket or device; "missing": nothing, so stat fails); link: the path itself
\* is a symbolic link; readable: the process may open it for reading
FsStates ==
    [kind : {"file", "dir", "other"}, link : BOOLEAN, readable : BOOLEAN]
    \cup [kind : {"missing"}, link : BOOLEAN, readable : {FALSE}]

Init ==
    /\ arg = None
    /\ result = None
    /\ data \in DataInputs
    /\ fs \in FsStates
    /\ pc = "validate"
    /\ url = None
    /\ req = None
    /\ sent = <<>>
    /\ res = None
    /\ stdout = <<>>
    /\ ret = None
    /\ fs_ops = <<>>

\* line 50: kv::validate_target(target)?
ValidateTarget ==
    /\ pc = "validate"
    /\ \E valid \in BOOLEAN :
         LET r == validate_target(valid)
         IN IF r.ok THEN pc' = "build_url" /\ ret' = ret
            ELSE pc' = "done" /\ ret' = Some(r)
    /\ UNCHANGED <<arg, result, data, fs, url, req, sent, res, stdout, fs_ops>>

\* lines 52-68: the endpoint, the query parameters, Url::parse_with_params(..)?
BuildUrl ==
    /\ pc = "build_url"
    /\ \E parses \in BOOLEAN :
         LET r == parse_with_params(api_endpoint, query_params(data), parses)
         IN IF r.ok THEN pc' = "build_body" /\ url' = Some(r.v) /\ ret' = ret
            ELSE pc' = "done" /\ url' = url /\ ret' = Some(r)
    /\ UNCHANGED <<arg, result, data, fs, req, sent, res, stdout, fs_ops>>

\* lines 96-105, 109: the multipart form or the raw body, or the `?` return
BuildBody ==
    /\ pc = "build_body"
    /\ \E opens \in OpenResults(fs) :
         LET b == build_payload(data, fs, opens)
         IN /\ fs_ops' = fs_ops \o b.ops
            /\ IF b.r.ok THEN pc' = "send" /\ req' = Some(b.r.v) /\ ret' = ret
               ELSE pc' = "done" /\ req' = req /\ ret' = Some(b.r)
    /\ UNCHANGED <<arg, result, data, fs, url, sent, res, stdout>>


\* send() tried once more after a transport error
SendRetry ==
    /\ pc = "send"
    /\ sent' = Append(sent, [method |-> "PUT", url |-> url.v, payload |-> req.v])
    /\ \E r \in SendResults(req.v, fs) :
         IF r.ok THEN pc' = "interpret" /\ res' = Some(r.v) /\ ret' = ret
         ELSE IF sent = <<>> THEN pc' = "send" /\ res' = res /\ ret' = ret
         ELSE pc' = "done" /\ res' = res /\ ret' = Some(r)
    /\ UNCHANGED <<arg, result, data, fs, url, req, stdout, fs_ops>>

\* lines 106, 110: client.put(&url_into_str)...send()?
Send ==
    /\ pc = "send"
    /\ sent' = Append(sent, [method |-> "PUT", url |-> url.v, payload |-> req.v])
    /\ \E r \in SendResults(req.v, fs) :
         IF r.ok THEN pc' = "interpret" /\ res' = Some(r.v) /\ ret' = ret
         ELSE pc' = "done" /\ res' = res /\ ret' = Some(r)
    /\ UNCHANGED <<arg, result, data, fs, url, req, stdout, fs_ops>>

\* lines 72-86: print "Success" or the error report, return Ok(())
Interpret ==
    /\ pc = "interpret"
    /\ LET o == interpret(res.v)
       IN stdout' = stdout \o o.out /\ ret' = Some(o.ret)
    /\ pc' = "done"
    /\ UNCHANGED <<arg, result, data, fs, url, req, sent, res, fs_ops>>

Next == ValidateTarget \/ BuildUrl \/ BuildBody \/ Send \/ Interpret

Spec == Init /\ [][Next]_vars

(***************************************************************************)
(* Properties of parse_metadata (ParseSpec).                               *)
(***************************************************************************)
\* values whose serialisation is among the arguments tried
RoundTripValues == MetaValues \cup {JNull, JBool(FALSE), JArr(<<>>), JObj(<<>>), JStr(<<>>)}

\* what each vector of tests::metadata_parser_legal denotes
LegalValue(s) ==
    CASE s = VecTrue -> JBool(TRUE)
      [] s = VecFalse -> JBool(FALSE)
      [] s = VecNumber -> JNum(TRUE, FALSE, <<"1", "2", "3">>, <<"4", "5", "6">>, <<>>)
      [] s = VecString -> JStr(<<"s", "o", "m", "e", " ", "s", "t", "r", "i", "n", "g">>)
      [] s = VecArray -> JArr(<<JInt(<<"1">>), JInt(<<"2">>)>>)
      [] s = VecObject -> JObj(<<"k", "e", "y">> :> JStr(<<"v", "a", "l", "u", "e">>))

\* C4: parse_metadata succeeds exactly when its input is None or valid JSON:
\* None gives Ok(None); a string the JSON parser accepts gives Ok(Some(v)) with
\* v the value it denotes (the legal test vectors give the values they spell,
\* and the text of a value gives that value back); a string the parser rejects
\* (the illegal test vectors among them) gives an error and no value.
C4_ParseSucceedsIffValidJson ==
    result.some =>
      LET r == result.v
      IN /\ ~arg.some => r = Ok(None)
         /\ arg.some =>
              /\ r.ok <=> from_str(arg.v).ok
              /\ r.ok => r.v = Some(from_str(arg.v).v)
              /\ ~r.ok => DOMAIN r = {"ok", "err"}
              /\ arg.v \in LegalVectors => r = Ok(Some(LegalValue(arg.v)))
              /\ arg.v \in IllegalVectors \cup HintVectors => ~r.ok
              /\ \A v \in RoundTripValues : arg.v = to_string(v) => r = Ok(Some(v))

C4_Witness ==
    /\ result.some
    /\ arg = Some(VecObject)
    /\ result.v = Ok(Some(JObj(<<"k", "e", "y">> :> JStr(<<"v", "a", "l", "u", "e">>))))

\* s without one leading quote character, if it has one, and then without
\* one trailing quote character, if it has one
StripQuotes(s) ==
    LET a == IF s # <<>> /\ Head(s) \in {"'", "\""} THEN Tail(s) ELSE s
    IN IF a # <<>> /\ a[Len(a)] \in {"'", "\""} THEN SubSeq(a, 1, Len(a) - 1) ELSE a

LooksUnquoted(s) ==
    \A k \in 1..Len(StripQuotes(s)) : StripQuotes(s)[k] \notin {"{", "}", "[", "]", "'", "\""}

\* the hint for the argument abc, spelled out
HintForAbc ==
    << "d", "i", "d", " ", "y", "o", "u", " ", "r", "e", "m", "e", "m", "b", "e", "r", " ",
       "t", "o", " ", "d", "o", "u", "b", "l", "e", " ", "q", "u", "o", "t", "e", " ",
       "s", "t", "r", "i", "n", "g", "s", ",", " ", "l", "i", "k", "e", " ",
       "-", "-", "m", "e", "t", "a", "d", "a", "t", "a", " ", "'", "\"", "a", "b", "c", "\"", "'" >>

\* C5: for an argument that is not valid JSON, parse_metadata fails with the
\* hint message (the argument echoed verbatim between '" and "') exactly when
\* the argument, without at most one leading and one trailing quote character,
\* contains none of { } [ ] ' " ; otherwise it fails with the JSON parser's own
\* error, unmodified.  The six test vectors all get the hint.
C5_HintIffLooksUnquoted ==
    (result.some /\ arg.some /\ ~from_str(arg.v).ok) =>
      LET s == arg.v
          r == result.v
          e == from_str(s)
      IN /\ ~r.ok
         /\ LooksUnquoted(s) => r.err = [hint |-> TRUE, text |-> HintPrefix \o s \o HintSuffix]
         /\ ~LooksUnquoted(s) => r.err = [hint |-> FALSE, text |-> <<e.err>>, at |-> e.pos]
         /\ s \in HintVectors => r.err.hint
         /\ s = VecAbc => r.err.text = HintForAbc

C5_Witness ==
    /\ result.some
    /\ arg = Some(VecAbcLeadDQ)
    /\ ~result.v.ok
    /\ result.v.err.hint
    /\ result.v.err.text = HintPrefix \o VecAbcLeadDQ \o HintSuffix

(***************************************************************************)
(* Properties of put (Spec).                                               *)
(***************************************************************************)
Returned == ret.some
ReturnedErr == ret.some /\ ~ret.v.ok
ReturnedOk == ret.some /\ ret.v.ok

\* the body step (lines 96-109) has run
BodyRan == url.some /\ pc \notin {"validate", "build_url", "build_body"}

\* the value as a payload reads it: the file at the path, or the literal
ValueSource(d) ==
    IF d.is_file THEN [src |-> "file", path |-> d.value] ELSE [src |-> "text", text |-> d.value]

\* the compact JSON text of each metadata value of the model
ExpectedJson(m) ==
    CASE m = JBool(TRUE) -> <<"t", "r", "u", "e">>
      [] m = JStr(<<"a", "\"">>) -> <<"\"", "a", "\\", "\"", "\"">>
      [] m = JArr(<<JInt(<<"1">>), JInt(<<"2">>)>>) -> <<"[", "1", ",", "2", "]">>
      [] m = JObj(<<"k", "e", "y">> :> JStr(<<"v", "a", "l", "u", "e">>)) ->
           <<"{", "\"", "k", "e", "y", "\"", ":", "\"", "v", "a", "l", "u", "e", "\"", "}">>

\* C1: every request put sends is, with metadata, a multipart form of exactly
\* two parts, value (the file at the path when is_file, the literal text
\* otherwise) and metadata (the JSON text of the metadata value, which parses
\* back to it); without metadata it is a raw body (the literal, or the file at
\* the path when is_file) and no form.
C1_EncodingFollowsMetadata ==
    \A i \in 1..Len(sent) :
      LET p == sent[i].payload
      IN IF data.metadata.some
           THEN /\ p.encoding = "multipart"
                /\ DOMAIN p = {"encoding", "parts"}
                /\ Len(p.parts) = 2
                /\ p.parts[1] = [name |-> "value", body |-> ValueSource(data)]
                /\ p.parts[2].name = "metadata"
                /\ p.parts[2].body.src = "json"
                /\ p.parts[2].body.chars = ExpectedJson(data.metadata.v)
                /\ from_str(p.parts[2].body.chars).ok
                /\ from_str(p.parts[2].body.chars).v = data.metadata.v
         ELSE /\ p.encoding = "raw"
              /\ DOMAIN p = {"encoding", "body"}
              /\ p.body = ValueSource(data)

C1_Witness ==
    /\ Len(sent) = 1
    /\ data.metadata.some
    /\ data.is_file
    /\ sent[1].payload.encoding = "multipart"
    /\ sent[1].payload.parts[1].body.src = "file"

\* the report put prints for a response
ExpectedReport(response) ==
    [kind |-> "report", status |-> response.status,
     errors |-> IF response.body.parses THEN response.body.errors ELSE <<>>]

Rejected(response) == response.status < 200 \/ response.status > 299

\* C2: after a non-2xx response put has printed the report made of the status
\* and the body's error list (empty when the body does not parse) and nothing
\* else, and returns Ok(()); an error is returned only when validation, the URL,
\* the body or the send failed, and then there is no response.
C2_RejectionReportedNotReturned ==
    /\ (pc = "done" /\ res.some /\ Rejected(res.v)) =>
         /\ stdout = <<ExpectedReport(res.v)>>
         /\ ret = Some([ok |-> TRUE, v |-> "unit"])
    /\ ReturnedErr =>
         /\ ~res.some
         /\ \/ ret.v.err = TargetError /\ ~url.some /\ ~req.some /\ sent = <<>>
            \/ ret.v.err = UrlError /\ ~url.some /\ ~req.some /\ sent = <<>>
            \/ /\ ret.v.err \in {IoError("open"), IoError("stat"),
                                 DirectoryError(data.value), SymlinkError(data.value)}
               /\ url.some /\ ~req.some /\ sent = <<>>
            \/ ret.v.err = SendError /\ Len(sent) = 1
    /\ res.some => (pc = "done" => ReturnedOk)

C2_Witness ==
    /\ pc = "done"
    /\ res.some
    /\ res.v.status = 400
    /\ res.v.body.parses
    /\ res.v.body.errors # <<>>
    /\ stdout = <<ExpectedReport(res.v)>>
    /\ ReturnedOk

Count(seq, kind) == Cardinality({i \in 1..Len(seq) : seq[i].kind = kind})
Bit(b) == IF b THEN 1 ELSE 0

\* C3: a finished invocation has produced exactly one of: "Success" printed
\* (2xx), a report printed (non-2xx), an error returned; an invocation that
\* returns an error printed nothing, one that printed returns Ok, and nothing
\* is printed twice.
C3_ExactlyOneOutcome ==
    /\ Len(stdout) <= 1
    /\ pc = "done" =>
         /\ Returned
         /\ Bit(Count(stdout, "success") > 0) + Bit(Count(stdout, "report") > 0)
              + Bit(ReturnedErr) = 1
    /\ ReturnedErr => stdout = <<>>
    /\ stdout # <<>> => (pc = "done" /\ ReturnedOk /\ res.some)
    /\ Count(stdout, "success") > 0 => (~Rejected(res.v) /\ stdout[1].text = "Success")
    /\ Count(stdout, "report") > 0 => Rejected(res.v)

C3_Witness ==
    /\ pc = "done"
    /\ stdout = <<[kind |-> "success", text |-> "Success"]>>
    /\ ReturnedOk
    /\ res.v.status = 200

\* C6, as stated: with is_file, no metadata and the path a symbolic link,
\* whatever it points at, body resolution fails with the "is a symlink"
\* message and nothing is sent.
C6_SymlinkRejected ==
    (BodyRan /\ data.is_file /\ ~data.metadata.some /\ fs.link) =>
      /\ ~req.some
      /\ sent = <<>>
      /\ ReturnedErr
      /\ Len(ret.v.err) = 3
      /\ ret.v.err[3] = " is a symlink"

\* the pieces of s between occurrences of c
RECURSIVE SplitOn(_, _)
SplitOn(s, c) ==
    LET at == {k \in 1..Len(s) : s[k] = c}
    IN IF at = {} THEN <<s>>
       ELSE LET k == CHOOSE m \in at : \A o \in at : m <= o
            IN <<SubSeq(s, 1, k - 1)>> \o SplitOn(SubSeq(s, k + 1, Len(s)), c)

\* the character %xy stands for, for the escapes the model's strings need
HexChar(x, y) ==
    CASE <<x, y>> = <<"2", "6">> -> "&"
      [] <<x, y>> = <<"3", "D">> -> "="
      [] <<x, y>> = <<"2", "B">> -> "+"
      [] <<x, y>> = <<"2", "5">> -> "%"
      [] <<x, y>> = <<"2", "0">> -> " "

\* application/x-www-form-urlencoded decoding, as the receiving server does it
RECURSIVE FormDecode(_)
FormDecode(s) ==
    IF s = <<>> THEN <<>>
    ELSE IF s[1] = "+" THEN <<" ">> \o FormDecode(Tail(s))
    ELSE IF s[1] = "%" /\ Len(s) >= 3 THEN <<HexChar(s[2], s[3])>> \o FormDecode(SubSeq(s, 4, Len(s)))
    ELSE <<s[1]>> \o FormDecode(Tail(s))

\* the (name, value) parameters a query string carries
QueryPairs(q) ==
    IF q = <<>> THEN <<>>
    ELSE LET pieces == SplitOn(q, "&")
         IN [i \in 1..Len(pieces) |->
               LET nv == SplitOn(pieces[i], "=")
               IN << FormDecode(nv[1]),
                     FormDecode(SubSeq(pieces[i], Len(nv[1]) + 2, Len(pieces[i]))) >>]

\* the parameters the request asks for
ExpectedPairs(d) ==
    (IF d.expiration.some
       THEN << << <<"e", "x", "p", "i", "r", "a", "t", "i", "o", "n">>, d.expiration.v >> >>
       ELSE <<>>)
    \o (IF d.expiration_ttl.some
          THEN << << <<"e", "x", "p", "i", "r", "a", "t", "i", "o", "n", "_", "t", "t", "l">>,
                     d.expiration_ttl.v >> >>
          ELSE <<>>)

\* C7: the URL built, and the URL of every request sent, carries exactly the
\* parameters expiration (iff set) and expiration_ttl (iff set), in that
\* order, each decoding to the request's string; none when neither is set; and
\* URL construction can succeed whatever is set, both included.
C7_QueryParameters ==
    /\ url.some =>
         /\ url.v.base = api_endpoint
         /\ QueryPairs(url.v.query) = ExpectedPairs(data)
         /\ (~data.expiration.some /\ ~data.expiration_ttl.some) => url.v.query = <<>>
         /\ (data.expiration = Some(<<"1">>) /\ ~data.expiration_ttl.some) =>
              url.v.query = <<"e", "x", "p", "i", "r", "a", "t", "i", "o", "n", "=", "1">>
    /\ \A i \in 1..Len(sent) : sent[i].url = url.v
    /\ pc = "build_url" => ENABLED (BuildUrl /\ pc' = "build_body")

C7_Witness ==
    /\ Len(sent) = 1
    /\ data.expiration = Some(<<"&">>)
    /\ data.expiration_ttl = Some(<<" ">>)
    /\ QueryPairs(sent[1].url.query) = ExpectedPairs(data)
    /\ stdout = <<[kind |-> "success", text |-> "Success"]>>

\* C8, as stated: with is_file and the path a directory, another non-regular
\* file or inaccessible, nothing is ever sent and put ends with an error, with
\* or without metadata.
C8_BadPathNeverSent ==
    (data.is_file /\ (fs.kind \in {"dir", "other", "missing"} \/ ~fs.readable)) =>
      /\ sent = <<>>
      /\ pc = "done" => ReturnedErr

\* the result of body resolution in the cases the code decides alike with or
\* without a readable file
BodyResolutionCommon ==
    /\ ~data.is_file => (req = Some([encoding |-> "raw", body |-> [src |-> "text", text |-> data.value]])
                         /\ fs_ops = <<>>)
    /\ (data.is_file /\ fs.kind = "dir") =>
         /\ ret = Some([ok |-> FALSE,
                        err |-> <<"--path argument takes a file, ", data.value, " is a directory">>])
    /\ (data.is_file /\ fs.kind = "missing") =>
         /\ ret = Some([ok |-> FALSE, err |-> <<"io::Error", "stat">>])
    /\ (data.is_file /\ fs.kind \in {"dir", "file"}) =>
         ~(ReturnedErr /\ ret.v.err = <<"--path argument takes a file, ", data.value, " is a symlink">>)
    /\ (ReturnedErr /\ sent = <<>>) => ~req.some

FileBodyResolved ==
    req = Some([encoding |-> "raw", body |-> [src |-> "file", path |-> data.value]])

\* C9, as stated: body resolution without metadata maps each case to one
\* result, and a regular file always gives the streamed body.
C9_Original ==
    (BodyRan /\ ~data.metadata.some) =>
      /\ BodyResolutionCommon
      /\ (data.is_file /\ fs.kind = "file") => FileBodyResolved

\* C9, amended: body resolution without metadata gives the literal's bytes
\* when is_file is false, without touching the file system; for a regular file
\* the streamed body when the file opens and the OS error of the open when it
\* does not; for a directory exactly the "is a directory" message; the OS
\* error when the path cannot be stat'ed.  Directory and regular file never
\* give the symlink message, and a failure yields no body.
C9_BodyResolution ==
    (BodyRan /\ ~data.metadata.some) =>
      /\ BodyResolutionCommon
      /\ (data.is_file /\ fs.kind = "file" /\ fs.readable) => FileBodyResolved
      /\ (data.is_file /\ fs.kind = "file" /\ ~fs.readable) =>
           (~req.some /\ ret = Some([ok |-> FALSE, err |-> <<"io::Error", "open">>]))

C9_Witness ==
    /\ BodyRan
    /\ ~data.metadata.some
    /\ data.is_file
    /\ fs.kind = "file"
    /\ ~fs.readable
    /\ ~req.some
    /\ ret = Some([ok |-> FALSE, err |-> <<"io::Error", "open">>])

\* how many steps an invocation at pc has left at most
Rank(p) ==
    CASE p = "validate" -> 5
      [] p = "build_url" -> 4
      [] p = "build_body" -> 3
      [] p = "send" -> 2
      [] p = "interpret" -> 1
      [] p = "done" -> 0

C10_State ==
    /\ Len(sent) <= 1
    /\ (pc = "done" /\ url.some /\ req.some) => Len(sent) = 1
    /\ sent # <<>> => (url.some /\ req.some /\ pc \in {"interpret", "done"})
    /\ req.some => url.some
    /\ res.some => Len(sent) = 1
    /\ stdout # <<>> => res.some
    /\ (ReturnedErr /\ ret.v.err = <<"validate_target">>) => (~url.some /\ sent = <<>>)
    /\ (ReturnedErr /\ ret.v.err = <<"url::ParseError">>) => (~req.some /\ sent = <<>>)
    /\ pc = "done" <=> Returned
    /\ pc # "done" => ENABLED Next

C10_Step ==
    /\ Rank(pc') < Rank(pc)
    /\ pc' \in {"done"} \cup {q \in {"build_url", "build_body", "send", "interpret"} :
                                Rank(q) = Rank(pc) - 1}
    /\ sent' # sent => (pc = "send" /\ Len(sent') = Len(sent) + 1)
    /\ res' # res => (pc = "send" /\ sent' # sent)
    /\ stdout' # stdout => pc = "interpret"

\* C10: an invocation sends at most one request, never again after any
\* outcome, and exactly one once validation, URL and body all succeeded; it
\* goes validate, URL, body, send, interpret, each step moving on or returning,
\* so it ends; a validation failure leaves no URL and no request, a URL failure
\* no request; the response is interpreted only after the one send.
C10_OneRequestInOrder == [](C10_State) /\ [][C10_Step]_vars

C10_Witness ==
    /\ pc = "done"
    /\ Len(sent) = 1
    /\ ret = Some([ok |-> FALSE, err |-> <<"reqwest::Error">>])
    /\ ~res.some

====
